---- MODULE Spec2Model ----
(***************************************************************************)
(* Model of cvt_concept_map_visual_editor.py: the CanvasWidget document    *)
(* (nodes, arrows), its transient interaction state, and the handlers that *)
(* change them.                                                            *)
(*                                                                         *)
(* Python objects are modelled by identity: a node is an id into `node`,   *)
(* an arrow an id into `arrow`.  An object that is no longer in a list but *)
(* is still referenced (selected_node, dragging_node, ...) stays allocated *)
(* exactly as the Python object stays alive.                               *)
(*                                                                         *)
(* Coordinates are exact integers where the program uses floats; pointer   *)
(* positions are drawn from the device positions whose division by the     *)
(* zoom factor is exact.                                                   *)
(***************************************************************************)
EXTENDS Integers, Sequences, FiniteSets, TLC

\* ---------------------------------------------------------------- bounds
MaxNodes == 3    \* nodes in self.nodes
MaxArrows == 2   \* arrows in self.arrows
MaxZoom == 1     \* zoom_in calls not undone by a zoom_out
MaxEvents == 4   \* events handled since the window opened

\* ------------------------------------------------------ program constants
PadW == 18
PadH == 12
Tolerance == 8
DefaultX == 20
DefaultY == 20
WidgetW == 2000     \* self.width(): setMinimumSize(2000, 2000) inside the scroll area
WidgetH == 2000     \* self.height()

None == 0
NodeIds == 1..(MaxNodes + 4)
ArrowIds == 1..(MaxArrows + 1)

VARIABLES
    nodes,             \* self.nodes: sequence of node ids (z-order)
    arrows,            \* self.arrows: sequence of arrow ids
    node,              \* the Node/TextNode objects, by id
    arrow,             \* the Arrow objects, by id
    dragging_node,     \* self.dragging_node
    drag_offset,       \* self.drag_offset
    selected_node,     \* self.selected_node
    selected_arrow,    \* self.selected_arrow
    arrow_source_node, \* self.arrow_source_node
    editing_node,      \* self.editing_node
    editor_text,       \* self.editor.text(): the content of the line edit
    zoom,              \* self._zoom, as the exponent k of 1.15^k
    last,              \* the handler that ran last, how it ended, the file it read
    events             \* the number of events handled so far

vars == <<nodes, arrows, node, arrow, dragging_node, drag_offset, selected_node,
          selected_arrow, arrow_source_node, editing_node, editor_text, zoom,
          last, events>>

\* ------------------------------------------------------------ sequences
Range(s) == {s[i] : i \in 1..Len(s)}

RECURSIVE SelectSeqBy(_, _)
\* [e for e in s if e \in keep], order kept
SelectSeqBy(s, keep) ==
    IF s = <<>> THEN <<>>
    ELSE IF Head(s) \in keep THEN <<Head(s)>> \o SelectSeqBy(Tail(s), keep)
         ELSE SelectSeqBy(Tail(s), keep)

RECURSIVE RemoveFirst(_, _)
\* list.remove(e) for an e that is in the list
RemoveFirst(s, e) ==
    IF s = <<>> THEN <<>>
    ELSE IF Head(s) = e THEN Tail(s)
         ELSE <<Head(s)>> \o RemoveFirst(Tail(s), e)

Abs(v) == IF v < 0 THEN -v ELSE v
Min(S) == CHOOSE v \in S : \A u \in S : v <= u

\* ------------------------------------------------------------------ text
\* A string is the sequence of its characters.
Digit(d) == CASE d = 0 -> "0" [] d = 1 -> "1" [] d = 2 -> "2" [] d = 3 -> "3"
              [] d = 4 -> "4" [] d = 5 -> "5" [] d = 6 -> "6" [] d = 7 -> "7"
              [] d = 8 -> "8" [] d = 9 -> "9"

RECURSIVE Str(_)
\* str(n) of a non-negative integer, as in an f-string
Str(n) == IF n < 10 THEN <<Digit(n)>> ELSE Str(n \div 10) \o <<Digit(n % 10)>>

\* QFontMetrics(font).horizontalAdvance(text) for the 12 pt node font:
\* additive in the characters, a fixed advance of 2 for each.
horizontalAdvance(text) == Len(text) * 2

\* QFontMetrics(font).height() for the 12 pt node font
height == 16

\* ---------------------------------------------------------- entity model
FreeNode == [kind |-> "free", x |-> 0, y |-> 0, text |-> <<>>, w |-> 0, h |-> 0,
             selected |-> FALSE]

\* a node object that is still referred to and never read again
DeadNode == [FreeNode EXCEPT !.kind = "dead"]

FreeArrow == [start_node |-> None, end_node |-> None, selected |-> FALSE]

\* set_text without the recomputation of w and h
set_text_keeps_size(n, text) == [n EXCEPT !.text = text]

\* Node.set_text / TextNode.set_text: text, then w and h from the metrics
set_text(n, text) ==
    [n EXCEPT !.text = text,
              !.w = horizontalAdvance(text) + PadW,
              !.h = height + PadH]

\* Node.__init__ (kind "node") and TextNode.__init__ (kind "textnode")
NewNode(kind, x, y, text) ==
    set_text([kind |-> kind, x |-> x, y |-> y, text |-> text, w |-> 0, h |-> 0,
              selected |-> FALSE], text)

\* Arrow.__init__
NewArrow(s, e) == [start_node |-> s, end_node |-> e, selected |-> FALSE]

isTextNode(n) == n.kind = "textnode"
isConcept(n) == n.kind = "node"

\* Node.contains: QRectF(x, y, w, h).contains(point), edges included
contains(n, p) ==
    /\ n.x <= p[1] /\ p[1] <= n.x + n.w
    /\ n.y <= p[2] /\ p[2] <= n.y + n.h

\* Node.center, doubled so that it stays an integer: 2 * (x + w/2, y + h/2)
center2(n) == <<2 * n.x + n.w, 2 * n.y + n.h>>

\* Node.boundary_point(target) is center + (target - center) * scale; this is
\* `scale` as the fraction <<num, den>>, min(hw/|dx|, hh/|dy|), and 0 when the
\* target is the centre itself (the centre is returned).  t2 is the target
\* doubled, as center2 is.
boundary_scale(n, t2) ==
    LET c == center2(n)
        dx == Abs(t2[1] - c[1])
        dy == Abs(t2[2] - c[2])
    IN  IF dx = 0 /\ dy = 0 THEN <<0, 1>>
        ELSE IF dy = 0 THEN <<n.w, dx>>
        ELSE IF dx = 0 THEN <<n.h, dy>>
        ELSE IF n.w * dy <= n.h * dx THEN <<n.w, dx>>
        ELSE <<n.h, dy>>

\* |b*v - a*d|^2 < (2*Tolerance*b)^2: the point v (doubled, relative to the
\* start centre) is nearer than Tolerance to the point (a/b)*d of the line
near(v, d, a, b) ==
    LET ex == b * v[1] - a * d[1]
        ey == b * v[2] - a * d[2]
    IN  ex * ex + ey * ey < 4 * Tolerance * Tolerance * b * b

\* Arrow.contains(pos).  Both end points lie on the line through the two
\* centres: start = c1 + s1*d and end = c1 + (1 - s2)*d with d = c2 - c1, so
\* the clamped projection of the code is the point c1 + u*d with u = N/L
\* clamped between s1 and 1 - s2.  All comparisons are cross-multiplied.
arrow_contains(sn, en, p) ==
    LET c1 == center2(sn)
        c2 == center2(en)
        d  == <<c2[1] - c1[1], c2[2] - c1[2]>>
        v  == <<2 * p[1] - c1[1], 2 * p[2] - c1[2]>>
        s1 == boundary_scale(sn, c2)
        s2 == boundary_scale(en, c1)
        a1 == s1[1]
        b1 == s1[2]
        a2 == s2[2] - s2[1]          \* 1 - s2 = a2 / b2
        b2 == s2[2]
        L  == d[1] * d[1] + d[2] * d[2]
        N  == v[1] * d[1] + v[2] * d[2]
        X  == v[1] * d[2] - v[2] * d[1]
        k  == a2 * b1 - a1 * b2      \* sign of (1 - s2) - s1
    IN  IF L = 0 \/ k = 0
        THEN near(v, d, a1, b1)                      \* dx == dy == 0
        ELSE LET atStart == IF k > 0 THEN N * b1 <= a1 * L ELSE N * b1 >= a1 * L
                 atEnd   == IF k > 0 THEN N * b2 >= a2 * L ELSE N * b2 <= a2 * L
             IN  IF atStart THEN near(v, d, a1, b1)      \* t clamped to 0
                 ELSE IF atEnd THEN near(v, d, a2, b2)   \* t clamped to 1
                 ELSE X * X < 4 * Tolerance * Tolerance * L

\* ------------------------------------------------------- canvas state
\* The CanvasWidget fields as one record, so that a handler is a function
\* from the state before to the state after.
Cur == [nodes |-> nodes, arrows |-> arrows, node |-> node, arrow |-> arrow,
        dragging_node |-> dragging_node, drag_offset |-> drag_offset,
        selected_node |-> selected_node, selected_arrow |-> selected_arrow,
        arrow_source_node |-> arrow_source_node, editing_node |-> editing_node,
        editor_text |-> editor_text, zoom |-> zoom]

\* CanvasWidget.__init__
InitCanvas == [nodes |-> <<>>, arrows |-> <<>>,
               node |-> [i \in NodeIds |-> FreeNode],
               arrow |-> [a \in ArrowIds |-> FreeArrow],
               dragging_node |-> None, drag_offset |-> <<0, 0>>,
               selected_node |-> None, selected_arrow |-> None,
               arrow_source_node |-> None, editing_node |-> None,
               editor_text |-> <<>>, zoom |-> 0]

\* The node objects something still refers to.
LiveNodes(st) ==
    (Range(st.nodes)
       \cup {st.dragging_node, st.selected_node, st.arrow_source_node, st.editing_node}
       \cup {st.arrow[a].start_node : a \in Range(st.arrows)}
       \cup {st.arrow[a].end_node : a \in Range(st.arrows)}) \ {None}

RECURSIVE Distinct(_, _)
\* the members of seq other than None, each once, in order of first occurrence
Distinct(seq, seen) ==
    IF seq = <<>> THEN <<>>
    ELSE IF Head(seq) = None \/ Head(seq) \in seen THEN Distinct(Tail(seq), seen)
         ELSE <<Head(seq)>> \o Distinct(Tail(seq), seen \cup {Head(seq)})

RECURSIVE Ends(_, _)
Ends(st, as) ==
    IF as = <<>> THEN <<>>
    ELSE <<st.arrow[Head(as)].start_node, st.arrow[Head(as)].end_node>> \o Ends(st, Tail(as))

\* Object identities are opaque: the state is kept with the node objects
\* numbered in the order nodes, dragging_node, selected_node,
\* arrow_source_node, editing_node, arrow ends, and the arrow objects in the
\* order of self.arrows (a selected_arrow that is not in the list comes last).
\* Objects nothing refers to any more are gone (reference counting).  What no
\* code path reads again is put to a fixed value: drag_offset while
\* dragging_node is None; the selected flag of a node that is not in
\* self.nodes; every field of a node that only dragging_node, selected_node
\* or editing_node refer to (they are compared and written, never read); the
\* fields of an arrow that is not in self.arrows; the content of the line
\* edit while editing_node is None (show_editor sets it before it is read).
Collect(st) ==
    LET order == Distinct(st.nodes \o <<st.dragging_node, st.selected_node,
                                        st.arrow_source_node, st.editing_node>>
                            \o Ends(st, st.arrows), {})
        nn(i) == IF i = None THEN None ELSE CHOOSE j \in 1..Len(order) : order[j] = i
        aorder == Distinct(st.arrows \o <<st.selected_arrow>>, {})
        an(a) == IF a = None THEN None ELSE CHOOSE j \in 1..Len(aorder) : aorder[j] = a
        read == Range(st.nodes) \cup {st.arrow_source_node} \cup Range(Ends(st, st.arrows))
    IN  [nodes |-> [j \in 1..Len(st.nodes) |-> nn(st.nodes[j])],
         arrows |-> [j \in 1..Len(st.arrows) |-> an(st.arrows[j])],
         node |-> [j \in NodeIds |->
                     IF j > Len(order) THEN FreeNode
                     ELSE IF order[j] \in Range(st.nodes) THEN st.node[order[j]]
                     ELSE IF order[j] \in read
                          THEN [st.node[order[j]] EXCEPT !.selected = FALSE]
                     ELSE DeadNode],
         arrow |-> [j \in ArrowIds |->
                      IF j > Len(st.arrows) THEN FreeArrow
                      ELSE [start_node |-> nn(st.arrow[st.arrows[j]].start_node),
                            end_node |-> nn(st.arrow[st.arrows[j]].end_node),
                            selected |-> st.arrow[st.arrows[j]].selected]],
         dragging_node |-> nn(st.dragging_node),
         drag_offset |-> IF st.dragging_node = None THEN <<0, 0>> ELSE st.drag_offset,
         selected_node |-> nn(st.selected_node),
         selected_arrow |-> an(st.selected_arrow),
         arrow_source_node |-> nn(st.arrow_source_node),
         editing_node |-> nn(st.editing_node),
         editor_text |-> IF st.editing_node = None THEN <<>> ELSE st.editor_text,
         zoom |-> st.zoom]

FreeNodeIds(st) == {i \in NodeIds : i \notin LiveNodes(st)}
FreeArrowIds(st) == {a \in ArrowIds : a \notin Range(st.arrows) /\ a # st.selected_arrow}

\* ----------------------------------------------------------------- zoom
\* self._zoom is 1.15^zoom = ZoomNum / ZoomDen
RECURSIVE Pow(_, _)
Pow(b, e) == IF e = 0 THEN 1 ELSE b * Pow(b, e - 1)
ZoomNum(z) == Pow(23, z)
ZoomDen(z) == Pow(20, z)

\* event.position() / self._zoom, for a position it divides exactly
ToDoc(ev, z) == <<(ev[1] * ZoomDen(z)) \div ZoomNum(z), (ev[2] * ZoomDen(z)) \div ZoomNum(z)>>

\* The document points the pointer is put on, and the device positions that
\* are exactly these points at zoom z.
DocGrid == {<<x, y>> : x \in {20, 60}, y \in {40}}
Coords == 0..60
EventPositions(z) ==
    {<<(p[1] * ZoomNum(z)) \div ZoomDen(z), (p[2] * ZoomNum(z)) \div ZoomDen(z)>> :
        p \in {q \in DocGrid : (q[1] * ZoomNum(z)) % ZoomDen(z) = 0
                               /\ (q[2] * ZoomNum(z)) % ZoomDen(z) = 0}}

\* ------------------------------------------------------------- hit tests
\* for arrow in reversed(self.arrows): if arrow.contains(pos): the first found
HitArrowIdx(st, pos) ==
    {i \in 1..Len(st.arrows) :
        arrow_contains(st.node[st.arrow[st.arrows[i]].start_node],
                       st.node[st.arrow[st.arrows[i]].end_node], pos)}
Max(S) == CHOOSE v \in S : \A u \in S : v >= u
HitArrow(st, pos) ==
    IF HitArrowIdx(st, pos) = {} THEN None ELSE st.arrows[Max(HitArrowIdx(st, pos))]

\* for node in reversed(self.nodes): if node.contains(pos): the first found
HitNodeIdx(st, pos) == {i \in 1..Len(st.nodes) : contains(st.node[st.nodes[i]], pos)}
\* the node hit test taking the earliest node of the sequence
HitNode_earliest(st, pos) ==
    IF HitNodeIdx(st, pos) = {} THEN None ELSE st.nodes[Min(HitNodeIdx(st, pos))]

HitNode(st, pos) ==
    IF HitNodeIdx(st, pos) = {} THEN None ELSE st.nodes[Max(HitNodeIdx(st, pos))]

\* -------------------------------------------------------------- handlers
\* finish_editing, the slot of self.editor.editingFinished
finish_editing(st) ==
    IF st.editing_node # None
    THEN [st EXCEPT !.node[st.editing_node] = set_text(st.node[st.editing_node], st.editor_text),
                    !.editing_node = None]
    ELSE st

\* hide_editor: self.editor.hide() comes first.  show_editor gave the line
\* edit the focus; hiding it takes the focus away, on which QLineEdit emits
\* editingFinished, and the connected finish_editing runs while editing_node
\* is still set.  Only then is editing_node set to None.
hide_editor(st) == [finish_editing(st) EXCEPT !.editing_node = None]

\* select_arrow without the walk over the nodes
select_arrow_keeps_nodes(st, a) ==
    [st EXCEPT
       !.arrow = [i \in ArrowIds |->
                    IF i \in Range(st.arrows)
                    THEN [st.arrow[i] EXCEPT !.selected = (i = a)]
                    ELSE st.arrow[i]],
       !.selected_arrow = a]

select_arrow(st, a) ==
    LET flagged == [st EXCEPT
                      !.arrow = [i \in ArrowIds |->
                                   IF i \in Range(st.arrows)
                                   THEN [st.arrow[i] EXCEPT !.selected = (i = a)]
                                   ELSE st.arrow[i]],
                      !.selected_arrow = a]
    IN  IF a # None
        THEN [flagged EXCEPT
                !.node = [i \in NodeIds |->
                            IF i \in Range(st.nodes)
                            THEN [st.node[i] EXCEPT !.selected = FALSE]
                            ELSE st.node[i]],
                !.selected_node = None]
        ELSE flagged

select_node(st, n) ==
    select_arrow([st EXCEPT
                    !.node = [i \in NodeIds |->
                                IF i \in Range(st.nodes)
                                THEN [st.node[i] EXCEPT !.selected = (i = n)]
                                ELSE st.node[i]],
                    !.selected_node = n],
                 None)

\* the left press with the nodes tested before the arrows
press_left_nodes_first(st, pos) ==
    IF HitNode(st, pos) # None
    THEN LET n == HitNode(st, pos)
         IN  hide_editor([select_node(st, n) EXCEPT
                            !.dragging_node = n,
                            !.drag_offset = <<pos[1] - st.node[n].x, pos[2] - st.node[n].y>>])
    ELSE IF HitArrow(st, pos) # None
    THEN hide_editor(select_arrow(st, HitArrow(st, pos)))
    ELSE hide_editor([select_arrow(select_node(st, None), None) EXCEPT
                        !.dragging_node = None])

\* mousePressEvent, left button; pos is already event.position() / self._zoom
press_left(st, pos) ==
    IF HitArrow(st, pos) # None
    THEN hide_editor(select_arrow(st, HitArrow(st, pos)))
    ELSE IF HitNode(st, pos) # None
    THEN LET n == HitNode(st, pos)
         IN  hide_editor([select_node(st, n) EXCEPT
                            !.dragging_node = n,
                            !.drag_offset = <<pos[1] - st.node[n].x, pos[2] - st.node[n].y>>])
    ELSE hide_editor([select_arrow(select_node(st, None), None) EXCEPT
                        !.dragging_node = None])

\* the append of the arrow with its ends exchanged
append_arrow_reversed(st, s, e) ==
    LET a == Min(FreeArrowIds(st))
    IN  [st EXCEPT !.arrows = Append(st.arrows, a),
                   !.arrow = [st.arrow EXCEPT ![a] = NewArrow(e, s)]]

\* self.arrows.append(Arrow(self.arrow_source_node, node))
append_arrow(st, s, e) ==
    LET a == Min(FreeArrowIds(st))
    IN  [st EXCEPT !.arrows = Append(st.arrows, a),
                   !.arrow = [st.arrow EXCEPT ![a] = NewArrow(s, e)]]

\* the right press without the test arrow_source_node != node
press_right_links_itself(st, pos) ==
    LET n == HitNode(st, pos)
    IN  IF n # None
        THEN IF st.arrow_source_node # None
             THEN hide_editor([append_arrow(st, st.arrow_source_node, n) EXCEPT
                                 !.arrow_source_node = None])
             ELSE [st EXCEPT !.arrow_source_node = n]
        ELSE IF st.arrow_source_node # None
             THEN [st EXCEPT !.arrow_source_node = None]
             ELSE st

\* the right press that keeps the pending source when no node is hit
press_right_keeps_source(st, pos) ==
    LET n == HitNode(st, pos)
    IN  IF n # None
        THEN IF st.arrow_source_node # None /\ st.arrow_source_node # n
             THEN hide_editor([append_arrow(st, st.arrow_source_node, n) EXCEPT
                                 !.arrow_source_node = None])
             ELSE [st EXCEPT !.arrow_source_node = n]
        ELSE st

\* mousePressEvent, right button
press_right(st, pos) ==
    LET n == HitNode(st, pos)
    IN  IF n # None
        THEN IF st.arrow_source_node # None /\ st.arrow_source_node # n
             THEN hide_editor([append_arrow(st, st.arrow_source_node, n) EXCEPT
                                 !.arrow_source_node = None])
             ELSE [st EXCEPT !.arrow_source_node = n]
        ELSE IF st.arrow_source_node # None
             THEN [st EXCEPT !.arrow_source_node = None]
             ELSE st

\* the move that puts the dragged node at the pointer, without drag_offset
mouse_move_to_pointer(st, pos) ==
    IF st.dragging_node # None
    THEN hide_editor([st EXCEPT !.node[st.dragging_node].x = pos[1],
                                !.node[st.dragging_node].y = pos[2]])
    ELSE st

\* mouseMoveEvent
mouse_move(st, pos) ==
    IF st.dragging_node # None
    THEN hide_editor([st EXCEPT
                        !.node[st.dragging_node].x = pos[1] - st.drag_offset[1],
                        !.node[st.dragging_node].y = pos[2] - st.drag_offset[2]])
    ELSE st

\* mouseReleaseEvent
mouse_release(st) == [st EXCEPT !.dragging_node = None]

\* the default text counting the nodes of both kinds
default_text_counts_all(st, kind) ==
    (IF kind = "node" THEN <<"N", "o", "d", "e", " ">> ELSE <<"T", "e", "x", "t", " ">>)
      \o Str(Len(st.nodes) + 1)

\* add_node / add_text_node with text=None: the default text counts the nodes
\* of the same kind
default_text(st, kind) ==
    LET count == Cardinality({i \in 1..Len(st.nodes) : st.node[st.nodes[i]].kind = kind})
    IN  (IF kind = "node" THEN <<"N", "o", "d", "e", " ">> ELSE <<"T", "e", "x", "t", " ">>)
          \o Str(count + 1)

add_node_kind(st, kind, x, y) ==
    LET i == Min(FreeNodeIds(st))
    IN  [st EXCEPT !.nodes = Append(st.nodes, i),
                   !.node = [st.node EXCEPT ![i] = NewNode(kind, x, y, default_text(st, kind))]]

add_node(st, x, y) == add_node_kind(st, "node", x, y)
add_text_node(st, x, y) == add_node_kind(st, "textnode", x, y)

\* mouseDoubleClickEvent
double_click(st, pos) ==
    IF HitNode(st, pos) # None
    THEN [st EXCEPT !.editing_node = HitNode(st, pos),
                    !.editor_text = st.node[HitNode(st, pos)].text]
    ELSE add_node(st, DefaultX, DefaultY)

zoom_in(st) == hide_editor([st EXCEPT !.zoom = st.zoom + 1])
zoom_out(st) == hide_editor([st EXCEPT !.zoom = st.zoom - 1])

\* ---------------------------------------------------------------- delete
\* delete_selected_node keeping the arrows that end at the node
delete_selected_node_by_start(st) ==
    IF st.selected_node = None THEN [st |-> st, exc |-> "none"]
    ELSE LET keep == {a \in Range(st.arrows) : st.arrow[a].start_node # st.selected_node}
             filtered == [st EXCEPT !.arrows = SelectSeqBy(st.arrows, keep)]
         IN  IF st.selected_node \in Range(st.nodes)
             THEN [st |-> [filtered EXCEPT
                             !.nodes = RemoveFirst(st.nodes, st.selected_node),
                             !.selected_node = None],
                   exc |-> "none"]
             ELSE [st |-> filtered, exc |-> "ValueError"]

\* delete_selected_node: the arrows are filtered first, then
\* self.nodes.remove(self.selected_node) raises ValueError when the node is
\* not in the list, and the rest of the method is skipped.
delete_selected_node(st) ==
    IF st.selected_node = None THEN [st |-> st, exc |-> "none"]
    ELSE LET keep == {a \in Range(st.arrows) :
                        /\ st.arrow[a].start_node # st.selected_node
                        /\ st.arrow[a].end_node # st.selected_node}
             filtered == [st EXCEPT !.arrows = SelectSeqBy(st.arrows, keep)]
         IN  IF st.selected_node \in Range(st.nodes)
             THEN [st |-> [filtered EXCEPT
                             !.nodes = RemoveFirst(st.nodes, st.selected_node),
                             !.selected_node = None],
                   exc |-> "none"]
             ELSE [st |-> filtered, exc |-> "ValueError"]

\* delete_selected_arrow: self.arrows.remove raises ValueError likewise
delete_selected_arrow(st) ==
    IF st.selected_arrow = None THEN [st |-> st, exc |-> "none"]
    ELSE IF st.selected_arrow \in Range(st.arrows)
    THEN [st |-> [st EXCEPT !.arrows = RemoveFirst(st.arrows, st.selected_arrow),
                            !.selected_arrow = None],
          exc |-> "none"]
    ELSE [st |-> st, exc |-> "ValueError"]

\* MainWindow.delete_selected
delete_selected(st) ==
    IF st.selected_node # None THEN delete_selected_node(st)
    ELSE IF st.selected_arrow # None THEN delete_selected_arrow(st)
    ELSE [st |-> st, exc |-> "none"]

\* ------------------------------------------------------------------ save
\* A dict is a record with the set `has` of the keys it holds; a key that is
\* not in `has` is missing, whatever the field reads.
NodeKeys == {"type", "x", "y", "text"}
ArrowKeys == {"start", "end"}
FileKeys == {"nodes", "arrows"}

\* Node.to_dict / TextNode.to_dict
node_to_dict(n) == [has |-> NodeKeys, type |-> n.kind, x |-> n.x, y |-> n.y, text |-> n.text]

\* node_indices[n]: the 0-based index of n in self.nodes
IndexOf(ns, n) == Min({i \in 1..Len(ns) : ns[i] = n}) - 1

\* Arrow.to_dict(node_indices)
arrow_to_dict(st, a) ==
    [has |-> ArrowKeys,
     start |-> IndexOf(st.nodes, st.arrow[a].start_node),
     end |-> IndexOf(st.nodes, st.arrow[a].end_node)]

\* save_diagram raises KeyError on node_indices[...] of a node not in self.nodes
save_raises(st) ==
    \E a \in Range(st.arrows) :
        \/ st.arrow[a].start_node \notin Range(st.nodes)
        \/ st.arrow[a].end_node \notin Range(st.nodes)

\* save_diagram: the data written, when nothing is raised (json.dump and
\* json.load are inverse on such data)
save_diagram(st) ==
         [parses |-> TRUE, has |-> FileKeys,
          nodes |-> [i \in 1..Len(st.nodes) |-> node_to_dict(st.node[st.nodes[i]])],
          arrows |-> [j \in 1..Len(st.arrows) |-> arrow_to_dict(st, st.arrows[j])]]

\* ------------------------------------------------------------------ load
RECURSIVE load_nodes(_, _)
\* for nd in data["nodes"]: ...; a missing key raises KeyError where it is read
load_nodes(st, nds) ==
    IF nds = <<>> THEN [st |-> st, exc |-> "none"]
    ELSE LET nd == Head(nds)
         IN  IF "type" \notin nd.has THEN [st |-> st, exc |-> "KeyError"]
             ELSE IF nd.type \in {"node", "textnode"}
             THEN IF ~({"x", "y", "text"} \subseteq nd.has) THEN [st |-> st, exc |-> "KeyError"]
                  ELSE LET i == Min(FreeNodeIds(st))
                       IN  load_nodes(
                             [st EXCEPT !.nodes = Append(st.nodes, i),
                                        !.node = [st.node EXCEPT ![i] =
                                                    NewNode(nd.type, nd.x, nd.y, nd.text)]],
                             Tail(nds))
             ELSE load_nodes(st, Tail(nds))

\* self.nodes[k] for a Python list index k: negative k counts from the end
PyIndexOk(ns, k) == -Len(ns) <= k /\ k < Len(ns)
PyIndex(ns, k) == IF k >= 0 THEN ns[k + 1] ELSE ns[Len(ns) + k + 1]

RECURSIVE load_arrows(_, _)
\* for ad in data["arrows"]: start = self.nodes[ad["start"]]; ...
load_arrows(st, ads) ==
    IF ads = <<>> THEN [st |-> st, exc |-> "none"]
    ELSE LET ad == Head(ads)
         IN  IF "start" \notin ad.has THEN [st |-> st, exc |-> "KeyError"]
             ELSE IF ~PyIndexOk(st.nodes, ad.start) THEN [st |-> st, exc |-> "IndexError"]
             ELSE IF "end" \notin ad.has THEN [st |-> st, exc |-> "KeyError"]
             ELSE IF ~PyIndexOk(st.nodes, ad.end) THEN [st |-> st, exc |-> "IndexError"]
             ELSE load_arrows(append_arrow(st, PyIndex(st.nodes, ad.start),
                                           PyIndex(st.nodes, ad.end)),
                              Tail(ads))

\* load_diagram(filename), with `file` what json.load finds in the file
load_diagram(st, file) ==
    IF ~file.parses THEN [st |-> st, exc |-> "JSONDecodeError"]
    ELSE LET cleared == [st EXCEPT !.nodes = <<>>, !.arrows = <<>>]
         IN  IF "nodes" \notin file.has THEN [st |-> cleared, exc |-> "KeyError"]
             ELSE LET n == load_nodes(cleared, file.nodes)
                  IN  IF n.exc # "none" THEN n
                      ELSE IF "arrows" \notin file.has THEN [st |-> n.st, exc |-> "KeyError"]
                      ELSE LET a == load_arrows(n.st, file.arrows)
                           IN  IF a.exc # "none" THEN a
                               ELSE [st |-> [a.st EXCEPT !.selected_node = None,
                                                         !.selected_arrow = None,
                                                         !.arrow_source_node = None],
                                     exc |-> "none"]

\* ---------------------------------------------------------------- export
RECURSIVE Concat(_)
Concat(ss) == IF ss = <<>> THEN <<>> ELSE Head(ss) \o Concat(Tail(ss))

\* outgoing[n]: the end nodes of the arrows that start at n, in arrow order
outgoing(st, n) ==
    LET from == SelectSeqBy(st.arrows, {a \in Range(st.arrows) : st.arrow[a].start_node = n})
    IN  [j \in 1..Len(from) |-> st.arrow[from[j]].end_node]

\* f"{node.text}, {mid.text}, {end.text}\n"
triple_line(a, m, b) == a.text \o <<",", " ">> \o m.text \o <<",", " ">> \o b.text \o <<"\n">>

\* the export without the test that the far end is a concept node
export_any_end(st) ==
    Concat([i \in 1..Len(st.nodes) |->
        LET n == st.nodes[i]
        IN  IF ~isConcept(st.node[n]) THEN <<>>
            ELSE Concat([j \in 1..Len(outgoing(st, n)) |->
                LET mid == outgoing(st, n)[j]
                IN  IF ~isTextNode(st.node[mid]) THEN <<>>
                    ELSE Concat([k \in 1..Len(outgoing(st, mid)) |->
                        LET end == outgoing(st, mid)[k]
                        IN  <<triple_line(st.node[n], st.node[mid], st.node[end])>>])])])

\* export_node_textnode_node_tuples: the lines written, in order
export_node_textnode_node_tuples(st) ==
    Concat([i \in 1..Len(st.nodes) |->
        LET n == st.nodes[i]
        IN  IF ~isConcept(st.node[n]) THEN <<>>
            ELSE Concat([j \in 1..Len(outgoing(st, n)) |->
                LET mid == outgoing(st, n)[j]
                IN  IF ~isTextNode(st.node[mid]) THEN <<>>
                    ELSE Concat([k \in 1..Len(outgoing(st, mid)) |->
                        LET end == outgoing(st, mid)[k]
                        IN  IF ~isConcept(st.node[end]) THEN <<>>
                            ELSE <<triple_line(st.node[n], st.node[mid], st.node[end])>>])])])

\* export_svg: the size given to the generator, the zoom self.render paints
\* with, and the state afterwards
export_svg(st) ==
    LET width == (WidgetW * ZoomNum(st.zoom)) \div ZoomDen(st.zoom)
        height_ == (WidgetH * ZoomNum(st.zoom)) \div ZoomDen(st.zoom)
        old_zoom == st.zoom
        painting == [st EXCEPT !.zoom = 0]
    IN  [size |-> <<width, height_>>,
         render_zoom |-> painting.zoom,
         st |-> [painting EXCEPT !.zoom = old_zoom]]

\* ----------------------------------------------------------------- files
\* The files load_diagram is given.
EntryA == [has |-> NodeKeys, type |-> "node", x |-> 20, y |-> 20, text |-> <<"A">>]
EntryB == [has |-> NodeKeys, type |-> "textnode", x |-> 60, y |-> 30, text |-> <<"B">>]
EntryC == [has |-> NodeKeys, type |-> "node", x |-> 60, y |-> 20, text |-> <<"A">>]
EntryUnknown == [has |-> NodeKeys, type |-> "group", x |-> 0, y |-> 0, text |-> <<"G">>]
EntryNoText == [has |-> {"type", "x", "y"}, type |-> "node", x |-> 20, y |-> 20, text |-> <<>>]

Ar(s, e) == [has |-> ArrowKeys, start |-> s, end |-> e]

File(ns, as) == [parses |-> TRUE, has |-> FileKeys, nodes |-> ns, arrows |-> as]

Files ==
    {[parses |-> FALSE, has |-> {}, nodes |-> <<>>, arrows |-> <<>>],
     [parses |-> TRUE, has |-> {"arrows"}, nodes |-> <<>>, arrows |-> <<>>],
     [parses |-> TRUE, has |-> {"nodes"}, nodes |-> <<EntryA, EntryB>>, arrows |-> <<>>],
     File(<<>>, <<>>),
     File(<<EntryA, EntryB>>, <<Ar(0, 1)>>),
     File(<<EntryA, EntryB>>, <<Ar(0, 1), Ar(1, 0)>>),
     File(<<EntryB, EntryA>>, <<Ar(0, 0)>>),
     File(<<EntryA, EntryB>>, <<Ar(5, 0)>>),
     File(<<EntryA, EntryB>>, <<Ar(0, 1), Ar(0, -3)>>),
     File(<<EntryA, EntryB>>, <<Ar(-1, 0)>>),
     File(<<EntryA, EntryUnknown, EntryB>>, <<Ar(0, 2)>>),
     File(<<EntryA, EntryB, EntryC>>, <<Ar(0, 1), Ar(1, 2)>>),
     File(<<EntryA, EntryNoText>>, <<>>),
     File(<<EntryA>>, <<[has |-> {"start"}, start |-> 0, end |-> 0]>>)}

\* The texts typed into the line edit.
EditTexts == {<<>>, <<"A", "B">>}

\* ------------------------------------------------------------ the machine
Fits(st) ==
    /\ Len(st.nodes) <= MaxNodes
    /\ Len(st.arrows) <= MaxArrows
    /\ st.zoom \in 0..MaxZoom
    /\ \A i \in LiveNodes(st) : st.node[i].x \in Coords /\ st.node[i].y \in Coords

Becomes(st, op, res, arg) ==
    /\ events < MaxEvents
    /\ events' = events + 1
    /\ Fits(st)
    /\ LET c == Collect(st)
       IN  /\ nodes' = c.nodes
           /\ arrows' = c.arrows
           /\ node' = c.node
           /\ arrow' = c.arrow
           /\ dragging_node' = c.dragging_node
           /\ drag_offset' = c.drag_offset
           /\ selected_node' = c.selected_node
           /\ selected_arrow' = c.selected_arrow
           /\ arrow_source_node' = c.arrow_source_node
           /\ editing_node' = c.editing_node
           /\ editor_text' = c.editor_text
           /\ zoom' = c.zoom
    /\ last' = [op |-> op, res |-> res, arg |-> arg]

Init ==
    /\ nodes = InitCanvas.nodes
    /\ arrows = InitCanvas.arrows
    /\ node = InitCanvas.node
    /\ arrow = InitCanvas.arrow
    /\ dragging_node = InitCanvas.dragging_node
    /\ drag_offset = InitCanvas.drag_offset
    /\ selected_node = InitCanvas.selected_node
    /\ selected_arrow = InitCanvas.selected_arrow
    /\ arrow_source_node = InitCanvas.arrow_source_node
    /\ editing_node = InitCanvas.editing_node
    /\ editor_text = InitCanvas.editor_text
    /\ zoom = InitCanvas.zoom
    /\ last = [op |-> "init", res |-> "none", arg |-> <<>>]
    /\ events = 0

CanAddNode(st) == Len(st.nodes) < MaxNodes /\ FreeNodeIds(st) # {}
CanAddArrow(st) == Len(st.arrows) < MaxArrows /\ FreeArrowIds(st) # {}

MousePressLeft ==
    \E ev \in EventPositions(zoom) :
        LET pos == ToDoc(ev, zoom)
        IN  Becomes(press_left(Cur, pos), "press_left",
                    IF HitArrow(Cur, pos) # None
                    THEN (IF HitNode(Cur, pos) # None THEN "arrow over node" ELSE "arrow")
                    ELSE IF HitNode(Cur, pos) # None THEN "node" ELSE "nothing",
                    <<>>)

MousePressRight ==
    \E ev \in EventPositions(zoom) :
        LET pos == ToDoc(ev, zoom)
            n == HitNode(Cur, pos)
            links == n # None /\ arrow_source_node # None /\ arrow_source_node # n
        IN  /\ links => CanAddArrow(Cur)
            /\ Becomes(press_right(Cur, pos), "press_right",
                       IF links THEN "arrow"
                       ELSE IF n # None
                            THEN (IF arrow_source_node = n THEN "same node" ELSE "source")
                            ELSE IF arrow_source_node # None THEN "cancel" ELSE "nothing",
                       <<>>)

MouseMove ==
    \E ev \in EventPositions(zoom) :
        Becomes(mouse_move(Cur, ToDoc(ev, zoom)), "move",
                IF dragging_node # None THEN "drag" ELSE "nothing", <<>>)

MouseRelease == Becomes(mouse_release(Cur), "release", "none", <<>>)

MouseDoubleClick ==
    \E ev \in EventPositions(zoom) :
        LET pos == ToDoc(ev, zoom)
        IN  /\ HitNode(Cur, pos) = None => CanAddNode(Cur)
            /\ Becomes(double_click(Cur, pos), "double_click",
                       IF HitNode(Cur, pos) # None THEN "edit" ELSE "add", <<>>)

\* the user types in the line edit that show_editor opened
TypeText ==
    /\ editing_node # None
    /\ \E text \in EditTexts :
          Becomes([Cur EXCEPT !.editor_text = text], "type", "none", <<>>)

\* Return in the line edit, or the focus going to another widget
FinishEditing ==
    Becomes(finish_editing(Cur), "finish_editing",
            IF editing_node # None THEN "commit" ELSE "nothing", <<>>)

ZoomIn == Becomes(zoom_in(Cur), "zoom_in", "none", <<>>)
ZoomOut == Becomes(zoom_out(Cur), "zoom_out", "none", <<>>)

AddNode ==
    CanAddNode(Cur) /\ Becomes(add_node(Cur, DefaultX, DefaultY), "add_node", "none", <<>>)

AddTextNode ==
    /\ CanAddNode(Cur)
    /\ Becomes(add_text_node(Cur, DefaultX, DefaultY), "add_text_node", "none", <<>>)

DeleteSelected ==
    LET r == delete_selected(Cur)
    IN  Becomes(r.st,
                IF selected_node # None THEN "delete_node"
                ELSE IF selected_arrow # None THEN "delete_arrow" ELSE "delete_nothing",
                IF r.exc # "none" THEN r.exc
                ELSE IF Len(r.st.arrows) < Len(arrows) /\ selected_node # None THEN "cascade"
                ELSE "none",
                <<>>)

SaveDiagram ==
    Becomes(Cur, "save", IF save_raises(Cur) THEN "KeyError" ELSE "none", <<>>)

\* Enough free objects for every node and arrow the file can make.
CanLoad(st, file) ==
    /\ Cardinality(NodeIds) - Cardinality(LiveNodes([st EXCEPT !.nodes = <<>>, !.arrows = <<>>]))
         >= Len(file.nodes)
    /\ Len(file.arrows) <= MaxArrows

LoadDiagram ==
    \E file \in Files :
        /\ CanLoad(Cur, file)
        /\ Becomes(load_diagram(Cur, file).st, "load", load_diagram(Cur, file).exc, file)

ExportTuples == Becomes(Cur, "export_tuples", "none", <<>>)

ExportSvg == Becomes(export_svg(Cur).st, "export_svg", "none", <<>>)

Next ==
    \/ MousePressLeft
    \/ MousePressRight
    \/ MouseMove
    \/ MouseRelease
    \/ MouseDoubleClick
    \/ TypeText
    \/ FinishEditing
    \/ ZoomIn
    \/ ZoomOut
    \/ AddNode
    \/ AddTextNode
    \/ DeleteSelected
    \/ SaveDiagram
    \/ LoadDiagram
    \/ ExportTuples
    \/ ExportSvg

Spec == Init /\ [][Next]_vars

\* The documents the triple export is applied to: every choice of kinds for
\* three nodes, with every sequence of at most two arrows between them.
ExportEntry(kind, i) ==
    [has |-> NodeKeys, type |-> kind, x |-> 20, y |-> 20,
     text |-> <<(IF kind = "node" THEN "N" ELSE "T"), Digit(i)>>]

ExportFiles ==
    {File(<<ExportEntry(k[1], 1), ExportEntry(k[2], 2), ExportEntry(k[3], 3)>>, as) :
        k \in [1..3 -> {"node", "textnode"}],
        as \in {<<>>} \cup {<<Ar(p[1], p[2])>> : p \in (0..2) \X (0..2)}
                  \cup {<<Ar(p[1], p[2]), Ar(q[1], q[2])>> :
                          p \in (0..2) \X (0..2), q \in (0..2) \X (0..2)}}

InitExport ==
    \E file \in ExportFiles :
        LET c == Collect(load_diagram(InitCanvas, file).st)
        IN  /\ nodes = c.nodes
            /\ arrows = c.arrows
            /\ node = c.node
            /\ arrow = c.arrow
            /\ dragging_node = c.dragging_node
            /\ drag_offset = c.drag_offset
            /\ selected_node = c.selected_node
            /\ selected_arrow = c.selected_arrow
            /\ arrow_source_node = c.arrow_source_node
            /\ editing_node = c.editing_node
            /\ editor_text = c.editor_text
            /\ zoom = c.zoom
            /\ last = [op |-> "load", res |-> "none", arg |-> file]
            /\ events = 0

NextExport == ExportTuples

\* A loaded document, and the triple export applied to it.
SpecExport == InitExport /\ [][NextExport]_vars

\* ================================================================ claims
InDoc(n) == n \in Range(nodes)

\* C1: every arrow of the arrow collection has its source node and its
\* target node in the node sequence, in every reachable state.
C1_ArrowEndsInStore ==
    \A a \in Range(arrows) : InDoc(arrow[a].start_node) /\ InDoc(arrow[a].end_node)

\* C2: at most one entity across nodes and arrows has selected = TRUE;
\* select_arrow of an arrow of the document leaves exactly that arrow selected
\* and every node unselected, select_node of a node of the document leaves
\* exactly that node selected and every arrow unselected.
SelectedEntities(st) ==
    {<<"node", n>> : n \in {m \in Range(st.nodes) : st.node[m].selected}}
      \cup {<<"arrow", a>> : a \in {b \in Range(st.arrows) : st.arrow[b].selected}}

C2_SelectionExclusive ==
    /\ Cardinality(SelectedEntities(Cur)) <= 1
    /\ \A a \in Range(arrows) : SelectedEntities(select_arrow(Cur, a)) = {<<"arrow", a>>}
    /\ \A n \in Range(nodes) : SelectedEntities(select_node(Cur, n)) = {<<"node", n>>}

\* an arrow was selected by a press while the document holds nodes, one of
\* which was selected before or not
C2_Witness ==
    /\ last.op = "press_left" /\ last.res \in {"arrow", "arrow over node"}
    /\ SelectedEntities(Cur) = {<<"arrow", selected_arrow>>}
    /\ Len(nodes) >= 2

\* C3: delete_selected_node with the selected node n in the document removes
\* n and every arrow that starts or ends at n, keeps every other node and
\* every other arrow in their order, and raises nothing.
C3_CascadeDelete ==
    InDoc(selected_node) =>
        LET n == selected_node
            r == delete_selected_node(Cur)
            OtherNode(m) == m # n
            OtherArrow(a) == arrow[a].start_node # n /\ arrow[a].end_node # n
        IN  /\ r.exc = "none"
            /\ n \notin Range(r.st.nodes)
            /\ \A a \in Range(r.st.arrows) :
                   r.st.arrow[a].start_node # n /\ r.st.arrow[a].end_node # n
            /\ r.st.nodes = SelectSeq(nodes, OtherNode)
            /\ r.st.arrows = SelectSeq(arrows, OtherArrow)
            /\ \A m \in Range(r.st.nodes) : r.st.node[m] = node[m]
            /\ \A a \in Range(r.st.arrows) : r.st.arrow[a] = arrow[a]

\* a node was deleted together with an arrow, and another arrow stayed
C3_Witness ==
    /\ last.op = "delete_node" /\ last.res = "cascade"
    /\ Len(arrows) >= 1 /\ Len(nodes) >= 1

\* C4: a load that fails leaves the node sequence, the arrow collection and
\* the selection as they were.
C4_FailedLoadKeepsDocument ==
    \A file \in Files :
        LET r == load_diagram(Cur, file)
        IN  (CanLoad(Cur, file) /\ r.exc # "none") =>
                /\ r.st.nodes = nodes
                /\ r.st.arrows = arrows
                /\ r.st.selected_node = selected_node
                /\ r.st.selected_arrow = selected_arrow

\* the number of nodes load_diagram builds from the entries: those of a known type
BuiltCount(nds) ==
    Cardinality({i \in 1..Len(nds) : nds[i].type \in {"node", "textnode"}})

\* an arrow entry with start or end outside [0, nodeCount)
OutOfRange(file) ==
    \E j \in 1..Len(file.arrows) :
        \E k \in {"start", "end"} :
            /\ k \in file.arrows[j].has
            /\ LET v == IF k = "start" THEN file.arrows[j].start ELSE file.arrows[j].end
               IN  v < 0 \/ v >= BuiltCount(file.nodes)

\* C5: a load whose file has an arrow entry with start or end outside
\* [0, nodeCount) of the nodes just built fails with an error.
C5_OutOfRangeIndexFails ==
    (last.op = "load" /\ last.arg.parses /\ last.arg.has = FileKeys /\ OutOfRange(last.arg))
        => last.res # "none"

\* save_diagram, load_diagram of what was saved, save_diagram again
Reloaded(st) == load_diagram(st, save_diagram(st))

\* C6: save_diagram succeeds on every reachable document D and
\* save(load(save(D))) = save(D).
C6_RoundTrip ==
    /\ ~save_raises(Cur)
    /\ Reloaded(Cur).exc = "none"
    /\ save_diagram(Reloaded(Cur).st) = save_diagram(Cur)

\* What C6 says of the documents save_diagram does not raise on.
RoundTripWhenSaved ==
    save_raises(Cur) \/ (/\ Reloaded(Cur).exc = "none"
                         /\ save_diagram(Reloaded(Cur).st) = save_diagram(Cur))

\* The propositions of the document: a concept node A of the node sequence,
\* an arrow A -> M with M a text node, an arrow M -> B with B a concept node.
Propositions ==
    {t \in (1..Len(nodes)) \X (1..Len(arrows)) \X (1..Len(arrows)) :
        LET a1 == arrow[arrows[t[2]]]
            a2 == arrow[arrows[t[3]]]
        IN  /\ node[nodes[t[1]]].kind = "node"
            /\ a1.start_node = nodes[t[1]]
            /\ node[a1.end_node].kind = "textnode"
            /\ a2.start_node = a1.end_node
            /\ node[a2.end_node].kind = "node"}

PropositionLine(t) ==
    node[nodes[t[1]]].text \o <<",", " ">> \o node[arrow[arrows[t[2]]].end_node].text
      \o <<",", " ">> \o node[arrow[arrows[t[3]]].end_node].text \o <<"\n">>

\* C7: the export writes one line "A.text, M.text, B.text" for each
\* proposition of the document and nothing else; for concept, text, concept
\* with the arrows 1 -> 2 and 2 -> 3 it writes exactly one line.
C7_ExportIsThePropositions ==
    LET out == export_node_textnode_node_tuples(Cur)
    IN  /\ Len(out) = Cardinality(Propositions)
        /\ \A t \in Propositions :
               Cardinality({i \in 1..Len(out) : out[i] = PropositionLine(t)})
                 = Cardinality({u \in Propositions : PropositionLine(u) = PropositionLine(t)})
        /\ (/\ Len(nodes) = 3
            /\ <<node[nodes[1]].kind, node[nodes[2]].kind, node[nodes[3]].kind>>
                 = <<"node", "textnode", "node">>
            /\ {<<arrow[a].start_node, arrow[a].end_node>> : a \in Range(arrows)}
                 = {<<nodes[1], nodes[2]>>, <<nodes[2], nodes[3]>>}
            /\ Len(arrows) = 2)
           => out = <<node[nodes[1]].text \o <<",", " ">> \o node[nodes[2]].text
                        \o <<",", " ">> \o node[nodes[3]].text \o <<"\n">>>>

\* the export ran on concept -> text -> concept
C7_Witness ==
    /\ last.op = "export_tuples"
    /\ Len(export_node_textnode_node_tuples(Cur)) = 1
    /\ Len(nodes) = 3 /\ Len(arrows) = 2
    /\ arrow[arrows[1]].end_node = arrow[arrows[2]].start_node

\* C8: a right press on the node that is arrow_source_node leaves the arrows
\* as they are, and no right press appends an arrow from a node to itself.
C8_NoSelfLoopByLinking ==
    \A ev \in EventPositions(zoom) :
        LET pos == ToDoc(ev, zoom)
            r == press_right(Cur, pos)
        IN  /\ (HitNode(Cur, pos) # None /\ HitNode(Cur, pos) = arrow_source_node)
                 => (r.arrows = arrows /\ r.arrow = arrow)
            /\ CanAddArrow(Cur) =>
                 \A a \in Range(r.arrows) \ Range(arrows) :
                     r.arrow[a].start_node # r.arrow[a].end_node

\* a right press hit the pending source itself
C8_Witness ==
    /\ last.op = "press_right" /\ last.res = "same node"
    /\ arrow_source_node # None

\* C9: every node of the document has w = textWidth(text) + 18 and
\* h = textHeight + 12 for its current text.
C9_SizeFollowsText ==
    \A n \in Range(nodes) :
        /\ node[n].w = horizontalAdvance(node[n].text) + 18
        /\ node[n].h = height + 12

\* an edit was committed, and a node of the document holds the empty string
C9_Witness ==
    /\ last.op = "finish_editing" /\ last.res = "commit"
    /\ \E n \in Range(nodes) : node[n].text = <<>> /\ node[n].w = 18

\* C10: a left press on a position that hits an arrow selects the hit arrow
\* that is last in the arrow list and nothing else, clears the node selection
\* and the edit, and leaves the drag as it was, also when a node is hit too.
C10_ArrowsBeforeNodes ==
    \A ev \in EventPositions(zoom) :
        LET pos == ToDoc(ev, zoom)
            r == press_left(Cur, pos)
            Hit(i) == arrow_contains(node[arrow[arrows[i]].start_node],
                                     node[arrow[arrows[i]].end_node], pos)
        IN  (\E i \in 1..Len(arrows) : Hit(i)) =>
                /\ \E i \in 1..Len(arrows) :
                       /\ Hit(i)
                       /\ \A j \in (i + 1)..Len(arrows) : ~Hit(j)
                       /\ r.selected_arrow = arrows[i]
                /\ SelectedEntities(r) = {<<"arrow", r.selected_arrow>>}
                /\ r.selected_node = None
                /\ r.editing_node = None
                /\ r.dragging_node = dragging_node
                /\ r.drag_offset = drag_offset
                /\ r.nodes = nodes /\ r.arrows = arrows

\* a left press hit an arrow at a position that is inside a node as well
C10_Witness ==
    /\ last.op = "press_left" /\ last.res = "arrow over node"
    /\ selected_arrow # None /\ arrow[selected_arrow].selected
    /\ selected_node = None

\* the indexes of the nodes of the document that contain pos
Under(pos) ==
    {i \in 1..Len(nodes) :
        /\ node[nodes[i]].x <= pos[1] /\ pos[1] <= node[nodes[i]].x + node[nodes[i]].w
        /\ node[nodes[i]].y <= pos[2] /\ pos[2] <= node[nodes[i]].y + node[nodes[i]].h}

\* the arrows of the document that pass at pos
ArrowsAt(pos) ==
    {a \in Range(arrows) : arrow_contains(node[arrow[a].start_node], node[arrow[a].end_node], pos)}

\* r is the document with one node more, at the end of the node sequence
AppendsOneNode(r) ==
    /\ Len(r.nodes) = Len(nodes) + 1
    /\ SubSeq(r.nodes, 1, Len(nodes)) = nodes
    /\ r.nodes[Len(r.nodes)] \notin Range(nodes)
    /\ \A n \in Range(nodes) : r.node[n] = node[n]

\* C11: add_node and add_text_node append the new node at the end of the
\* node sequence; a left press that hits no arrow and lies inside nodes
\* selects the one latest in the sequence and nothing else, clears the arrow
\* selection and the edit, and starts the drag of that node with
\* drag_offset = pos - (x, y); a left press that hits nothing clears the
\* selection, the drag and the edit.
C11_TopNodeIsPressed ==
    /\ CanAddNode(Cur) =>
          /\ AppendsOneNode(add_node(Cur, DefaultX, DefaultY))
          /\ AppendsOneNode(add_text_node(Cur, DefaultX, DefaultY))
    /\ \A ev \in EventPositions(zoom) :
          LET pos == ToDoc(ev, zoom)
              r == press_left(Cur, pos)
          IN  ArrowsAt(pos) = {} =>
                IF Under(pos) # {}
                THEN \E i \in Under(pos) :
                        /\ \A j \in Under(pos) : j <= i
                        /\ r.selected_node = nodes[i]
                        /\ SelectedEntities(r) = {<<"node", nodes[i]>>}
                        /\ r.selected_arrow = None
                        /\ r.editing_node = None
                        /\ r.dragging_node = nodes[i]
                        /\ r.drag_offset = <<pos[1] - node[nodes[i]].x, pos[2] - node[nodes[i]].y>>
                ELSE /\ r.selected_node = None
                     /\ r.selected_arrow = None
                     /\ SelectedEntities(r) = {}
                     /\ r.dragging_node = None
                     /\ r.editing_node = None

\* a left press landed inside two nodes and took the later one
C11_Witness ==
    /\ last.op = "press_left" /\ last.res = "node"
    /\ dragging_node # None /\ dragging_node = selected_node
    /\ \E i, j \in 1..Len(nodes) :
          /\ i < j /\ nodes[j] = dragging_node
          /\ {i, j} \subseteq Under(<<node[dragging_node].x + drag_offset[1],
                                      node[dragging_node].y + drag_offset[2]>>)

\* r holds no arrow that the current document does not hold
NoNewArrow(r) ==
    /\ Len(r.arrows) <= Len(arrows)
    /\ \A a \in Range(r.arrows) :
          /\ a \in Range(arrows)
          /\ r.arrow[a].start_node = arrow[a].start_node
          /\ r.arrow[a].end_node = arrow[a].end_node

\* the node of the document that is on top at pos, None if there is none
TopAt(pos) ==
    IF Under(pos) = {} THEN None
    ELSE nodes[CHOOSE i \in Under(pos) : \A j \in Under(pos) : j <= i]

\* C12: with no pending source, a right press on node s sets
\* arrow_source_node to s and creates no arrow; the right press on another
\* node t that follows appends exactly one arrow, from s to t, and clears
\* arrow_source_node.  No other gesture creates an arrow.
C12_LinkingProtocol ==
    /\ \A e1, e2 \in EventPositions(zoom) :
          LET p1 == ToDoc(e1, zoom)
              p2 == ToDoc(e2, zoom)
              s == TopAt(p1)
              t == TopAt(p2)
              r1 == press_right(Cur, p1)
              r2 == press_right(r1, p2)
          IN  (arrow_source_node = None /\ s # None) =>
                /\ r1.arrow_source_node = s
                /\ r1.arrows = arrows /\ r1.arrow = arrow
                /\ (t # None /\ t # s /\ CanAddArrow(Cur)) =>
                      /\ Len(r2.arrows) = Len(arrows) + 1
                      /\ SubSeq(r2.arrows, 1, Len(arrows)) = arrows
                      /\ r2.arrows[Len(r2.arrows)] \notin Range(arrows)
                      /\ r2.arrow[r2.arrows[Len(r2.arrows)]].start_node = s
                      /\ r2.arrow[r2.arrows[Len(r2.arrows)]].end_node = t
                      /\ \A a \in Range(arrows) : r2.arrow[a] = arrow[a]
                      /\ r2.arrow_source_node = None
    /\ \A ev \in EventPositions(zoom) :
          LET pos == ToDoc(ev, zoom)
          IN  /\ NoNewArrow(press_left(Cur, pos))
              /\ NoNewArrow(mouse_move(Cur, pos))
              /\ (TopAt(pos) # None \/ CanAddNode(Cur)) => NoNewArrow(double_click(Cur, pos))
              /\ (TopAt(pos) = None \/ arrow_source_node = None \/ arrow_source_node = TopAt(pos))
                    => NoNewArrow(press_right(Cur, pos))
    /\ NoNewArrow(mouse_release(Cur))
    /\ NoNewArrow(finish_editing(Cur))
    /\ NoNewArrow(zoom_in(Cur)) /\ NoNewArrow(zoom_out(Cur))
    /\ CanAddNode(Cur) => (/\ NoNewArrow(add_node(Cur, DefaultX, DefaultY))
                           /\ NoNewArrow(add_text_node(Cur, DefaultX, DefaultY)))
    /\ NoNewArrow(delete_selected(Cur).st)

\* two right presses in a row, on a node and then on another one, made an arrow
\* between two nodes of the document
C12_Witness ==
    /\ last.op = "press_right" /\ last.res = "arrow"
    /\ arrow_source_node = None
    /\ Len(arrows) >= 1
    /\ LET a == arrows[Len(arrows)]
       IN  /\ arrow[a].start_node # arrow[a].end_node
           /\ InDoc(arrow[a].start_node) /\ InDoc(arrow[a].end_node)

\* C13: a right press that hits no node sets arrow_source_node to None and
\* changes nothing else: nodes, arrows, selection, drag, edit and zoom stay.
C13_RightPressOnNothing ==
    \A ev \in EventPositions(zoom) :
        LET pos == ToDoc(ev, zoom)
            r == press_right(Cur, pos)
        IN  Under(pos) = {} =>
              /\ r.arrow_source_node = None
              /\ r.nodes = nodes /\ r.node = node
              /\ r.arrows = arrows /\ r.arrow = arrow
              /\ r.selected_node = selected_node /\ r.selected_arrow = selected_arrow
              /\ r.dragging_node = dragging_node /\ r.drag_offset = drag_offset
              /\ r.editing_node = editing_node
              /\ r.zoom = zoom

\* a right press beside every node gave up a pending source, with a node
\* of the document selected
C13_Witness ==
    /\ last.op = "press_right" /\ last.res = "cancel"
    /\ arrow_source_node = None
    /\ Len(nodes) >= 1
    /\ selected_node # None

\* r leaves every node of the document that it keeps where it is, and starts
\* no drag
MovesNothing(r) ==
    /\ \A n \in Range(nodes) \cap Range(r.nodes) :
          r.node[n].x = node[n].x /\ r.node[n].y = node[n].y
    /\ r.dragging_node \in {dragging_node, None}

\* C14: mouseReleaseEvent sets dragging_node to None and changes nothing
\* else; a move with dragging_node None changes nothing; a move while
\* dragging puts the dragged node at pos - drag_offset and moves no other
\* node; no other handler moves a node of the document, and only a left
\* press that hits a node starts a drag.
C14_OnlyDragMoves ==
    /\ mouse_release(Cur) = [Cur EXCEPT !.dragging_node = None]
    /\ \A ev \in EventPositions(zoom) :
          LET pos == ToDoc(ev, zoom)
              r == mouse_move(Cur, pos)
              l == press_left(Cur, pos)
          IN  /\ dragging_node = None => r = Cur
              /\ dragging_node # None =>
                    /\ r.node[dragging_node].x = pos[1] - drag_offset[1]
                    /\ r.node[dragging_node].y = pos[2] - drag_offset[2]
                    /\ \A n \in NodeIds \ {dragging_node} :
                          r.node[n].x = node[n].x /\ r.node[n].y = node[n].y
                    /\ r.nodes = nodes
                    /\ r.dragging_node = dragging_node /\ r.drag_offset = drag_offset
              /\ \A n \in Range(nodes) : l.node[n].x = node[n].x /\ l.node[n].y = node[n].y
              /\ l.nodes = nodes
              /\ (l.dragging_node \notin {dragging_node, None}) =>
                    (ArrowsAt(pos) = {} /\ l.dragging_node = TopAt(pos))
              /\ MovesNothing(press_right(Cur, pos)) \/ ~CanAddArrow(Cur)
              /\ MovesNothing(double_click(Cur, pos)) \/ ~CanAddNode(Cur)
    /\ MovesNothing(finish_editing(Cur))
    /\ MovesNothing(zoom_in(Cur)) /\ MovesNothing(zoom_out(Cur))
    /\ CanAddNode(Cur) => (/\ MovesNothing(add_node(Cur, DefaultX, DefaultY))
                           /\ MovesNothing(add_text_node(Cur, DefaultX, DefaultY)))
    /\ MovesNothing(delete_selected(Cur).st)

\* a drag moved a node of the document to a place where no node is made
C14_Witness ==
    /\ last.op = "move" /\ last.res = "drag"
    /\ InDoc(dragging_node)
    /\ Len(nodes) >= 2
    /\ <<node[dragging_node].x, node[dragging_node].y>>
          \notin {<<DefaultX, DefaultY>>, <<60, 30>>, <<60, 20>>}

\* r has set editing_node to None and left the text of the edited node alone
Cancelled(r) ==
    /\ r.editing_node = None
    /\ r.node[editing_node].text = node[editing_node].text

\* r changes the text of no node of the document other than the edited one
TextOnlyOfEdited(r) ==
    \A n \in (Range(nodes) \cap Range(r.nodes)) \ {editing_node} :
        r.node[n].text = node[n].text

\* C15: while a node of the document is edited, a left press, a move during
\* a drag, zoom_in and zoom_out set editing_node to None and leave the text
\* of that node as it is; finish_editing with editing_node None changes
\* nothing; no handler changes the text of a node other than the edited one.
C15_CancelNeverCommits ==
    /\ editing_node = None => finish_editing(Cur) = Cur
    /\ InDoc(editing_node) =>
          /\ Cancelled(zoom_in(Cur)) /\ Cancelled(zoom_out(Cur))
          /\ \A ev \in EventPositions(zoom) :
                /\ Cancelled(press_left(Cur, ToDoc(ev, zoom)))
                /\ dragging_node # None => Cancelled(mouse_move(Cur, ToDoc(ev, zoom)))
    /\ TextOnlyOfEdited(finish_editing(Cur))

\* What holds of the handlers that hide the line edit: they set editing_node
\* to None, and the only text they change is that of the edited node, to the
\* content of the line edit.
CancelCommitsTheEditor ==
    /\ editing_node = None => finish_editing(Cur) = Cur
    /\ \A ev \in EventPositions(zoom) :
          LET l == press_left(Cur, ToDoc(ev, zoom))
              m == mouse_move(Cur, ToDoc(ev, zoom))
          IN  /\ l.editing_node = None /\ TextOnlyOfEdited(l)
              /\ TextOnlyOfEdited(m)
              /\ InDoc(editing_node) =>
                    /\ l.node[editing_node].text = editor_text
                    /\ dragging_node # None => m.node[editing_node].text = editor_text
    /\ TextOnlyOfEdited(zoom_in(Cur)) /\ TextOnlyOfEdited(zoom_out(Cur))
    /\ TextOnlyOfEdited(finish_editing(Cur))
    /\ InDoc(editing_node) =>
          /\ zoom_in(Cur).node[editing_node].text = editor_text
          /\ finish_editing(Cur).node[editing_node].text = editor_text

\* the decimal numeral of k, for 1 <= k <= 9
Numeral(k) ==
    <<CASE k = 1 -> "1" [] k = 2 -> "2" [] k = 3 -> "3" [] k = 4 -> "4" [] k = 5 -> "5"
        [] k = 6 -> "6" [] k = 7 -> "7" [] k = 8 -> "8" [] k = 9 -> "9">>

\* the number of nodes of the document of the kind
CountOf(kind) == Cardinality({i \in 1..Len(nodes) : node[nodes[i]].kind = kind})

\* r is the document with one node more, of the kind, at (20, 20), named
\* "Node k+1" or "Text k+1" with k the count of its kind before
AddsNamed(r, kind) ==
    /\ AppendsOneNode(r)
    /\ LET new == r.node[r.nodes[Len(r.nodes)]]
       IN  /\ new.kind = kind
           /\ new.x = 20 /\ new.y = 20
           /\ new.text = (IF kind = "node" THEN <<"N", "o", "d", "e", " ">>
                                           ELSE <<"T", "e", "x", "t", " ">>)
                           \o Numeral(CountOf(kind) + 1)

\* C16: add_node names the new concept node "Node k+1" and add_text_node the
\* new text node "Text k+1", k being the number of nodes of that kind in the
\* document; a double click inside no node adds exactly one such concept
\* node at (20, 20), a double click inside a node adds none.
C16_DefaultNames ==
    /\ CanAddNode(Cur) =>
          /\ AddsNamed(add_node(Cur, DefaultX, DefaultY), "node")
          /\ AddsNamed(add_text_node(Cur, DefaultX, DefaultY), "textnode")
    /\ \A ev \in EventPositions(zoom) :
          LET pos == ToDoc(ev, zoom)
              r == double_click(Cur, pos)
          IN  IF Under(pos) = {}
              THEN CanAddNode(Cur) => AddsNamed(r, "node")
              ELSE r.nodes = nodes /\ r.node = node

\* a text node was added as "Text 2" to a document of two nodes
C16_Witness ==
    /\ last.op = "add_text_node"
    /\ Len(nodes) = 3
    /\ node[nodes[3]].text = <<"T", "e", "x", "t", " ", "2">>
    /\ node[nodes[3]].kind = "textnode"

\* what the delete action has to do in the current state
DeletesAsSaid ==
    LET r == delete_selected(Cur)
        n == selected_node
        a == selected_arrow
        OtherNode(m) == m # n
        OtherArrow(b) == b # a
        Apart(b) == arrow[b].start_node # n /\ arrow[b].end_node # n
    IN  /\ r.exc = "none"
        /\ (n = None /\ a = None) => r.st = Cur
        /\ (n = None /\ a # None) =>
              /\ r.st.nodes = nodes /\ r.st.node = node
              /\ r.st.arrows = SelectSeq(arrows, OtherArrow)
              /\ Len(r.st.arrows) = Len(arrows) - 1
        /\ n # None =>
              /\ r.st.nodes = SelectSeq(nodes, OtherNode)
              /\ Len(r.st.nodes) = Len(nodes) - 1
              /\ r.st.arrows = SelectSeq(arrows, Apart)

\* C17: the delete action raises no error in any reachable state; with
\* nothing selected it changes nothing, with an arrow selected it removes
\* exactly that arrow and no node, with a node selected it removes exactly
\* that node and the arrows at it.
C17_DeleteRemovesTheSelected == DeletesAsSaid

\* What C17 says of the states whose selection is in the document.
DeleteWhenInDocument ==
    ((selected_node = None \/ InDoc(selected_node))
       /\ (selected_arrow = None \/ selected_arrow \in Range(arrows)))
      => DeletesAsSaid

\* C18: export_svg paints with zoom 1.0 into a canvas of the widget's own
\* width and height whatever the live zoom is (the size is the one exported
\* at zoom 1.0), and leaves the live zoom as it was.
C18_SvgSizeIgnoresZoom ==
    /\ export_svg(Cur).render_zoom = 0
    /\ export_svg(Cur).st = Cur
    /\ export_svg(Cur).size = export_svg([Cur EXCEPT !.zoom = 0]).size
    /\ export_svg(Cur).size = <<2000, 2000>>

\* What export_svg does: it paints with zoom 1.0, leaves the state as it
\* was, and sizes the canvas int(width * zoom) by int(height * zoom).
SvgSizeFollowsZoom ==
    /\ export_svg(Cur).render_zoom = 0
    /\ export_svg(Cur).st = Cur
    /\ zoom = 0 => export_svg(Cur).size = <<2000, 2000>>
    /\ zoom = 1 => export_svg(Cur).size = <<2300, 2300>>
    /\ zoom = 2 => export_svg(Cur).size = <<2645, 2645>>

\* C19: selected_node is None or a node of the node sequence whose selected
\* flag is set, and selected_arrow is None or an arrow of the arrow
\* collection whose selected flag is set, in every reachable state.
C19_SelectionInDocument ==
    /\ selected_node = None \/ (InDoc(selected_node) /\ node[selected_node].selected)
    /\ selected_arrow = None
         \/ (selected_arrow \in Range(arrows) /\ arrow[selected_arrow].selected)

\* C20: arrow_source_node, dragging_node and editing_node are each None or
\* a node of the node sequence, in every reachable state.
C20_TransientRefsInDocument ==
    /\ arrow_source_node = None \/ InDoc(arrow_source_node)
    /\ dragging_node = None \/ InDoc(dragging_node)
    /\ editing_node = None \/ InDoc(editing_node)

====
